---- MODULE Spec2Model ----
(***************************************************************************)
(* skimage.data: the loader `load` and the named sample-image accessors.   *)
(*                                                                         *)
(* A call is run by a context (a caller's thread).  A context's frame      *)
(* holds the position of its call: the accessor entered, the arguments     *)
(* given to load, the statement of load that runs next, what load          *)
(* returned or raised, and the call's outcome.  Process-wide state is the  *)
(* data directory, the files under it, the plugin the io package has       *)
(* selected and the list of warnings filters.                              *)
(***************************************************************************)
EXTENDS Integers, Sequences, FiniteSets, TLC

\* Largest grey sample of the horse bitmap (samples are 0..MaxSample).
MaxSample == 2

\* ------------------------------------------------------------------ names

Contexts == {"c1", "c2"}

\* The sequential caller.
SeqContexts == {"c1"}

\* __all__ without load (binary_blobs is imported, not defined here).
Accessors ==
    {"camera", "lena", "text", "checkerboard", "coins", "moon", "page", "horse",
     "clock", "immunohistochemistry", "chelsea", "coffee", "hubble_deep_field",
     "rocket", "astronaut"}

\* The accessors the concurrent scenario runs.
ConcAccessors == {"coins", "moon"}

\* The files a packaged data directory holds.
BundledFiles ==
    <<"camera.png", "astronaut.png", "text.png", "chessboard_GRAY.png", "coins.png",
      "moon.png", "page.png", "horse.png", "clock_motion.png", "ihc.png",
      "chelsea.png", "coffee.png", "hubble_deep_field.jpg", "rocket.jpg">>

BundledSet == {BundledFiles[i] : i \in DOMAIN BundledFiles}

\* Every file name the model looks up: the bundled ones, a withdrawn lena.png
\* that may have been left behind, and a name that is never there.
FileNames == BundledSet \cup {"lena.png", "nonexistent.png"}

\* File names given to load directly.
LoadNames == {"nonexistent.png", "lena.png", "coins.png", "rocket.jpg"}

\* The files one of which may be missing or truncated.
Damageable == {"horse.png", "coins.png", "moon.png", "rocket.jpg"}

Plugins == {"pil", "matplotlib"}

\* ------------------------------------------------------------- the images

NoImage == [h |-> 0, w |-> 0, dtype |-> "none", grey |-> FALSE, pix |-> <<>>]

Absent == [state |-> "absent", pix |-> <<>>]

Corrupt == [state |-> "corrupt", pix |-> <<>>]

Valid(p) == [state |-> "valid", pix |-> p]

FileIndex(f) == CHOOSE i \in DOMAIN BundledFiles : BundledFiles[i] = f

\* The pixel data of a bundled file: one sample row that tells the files apart.
Bundled(f) == Valid(<<FileIndex(f), FileIndex(f) + 1>>)

\* The grey bitmaps horse.png may hold.
HorseContents == {<<a, b>> : a \in 0..MaxSample, b \in 0..MaxSample}

Failure(k) == [kind |-> k, img |-> NoImage]

Returned(i) == [kind |-> "Image", img |-> i]

NoOutcome == [kind |-> "none", img |-> NoImage]

\* skimage.io.imread under the selected plugin: the file is looked up, then
\* decoded; the plugin decides the sample type of the array.
imread(plug, files, path, as_grey) ==
    IF path \notin DOMAIN files \/ files[path].state = "absent"
    THEN Failure("FileNotFound")
    ELSE IF files[path].state = "corrupt" \/ Len(files[path].pix) = 0
    THEN Failure("DecodeError")
    ELSE Returned([h |-> 1, w |-> Len(files[path].pix),
                   dtype |-> IF plug = "pil" THEN "uint8" ELSE "float32",
                   grey |-> as_grey,
                   pix |-> files[path].pix])

\* skimage.img_as_bool: a sample above the midpoint of the range is True (1).
img_as_bool(i) ==
    [i EXCEPT !.dtype = "bool",
              !.pix = [k \in DOMAIN i.pix |-> IF 2 * i.pix[k] > MaxSample THEN 1 ELSE 0]]

\* warnings.simplefilter(action): the entry goes to the front of the list, an
\* equal entry further down is dropped.
simplefilter(fl, action) ==
    <<action>> \o SelectSeq(fl, LAMBDA x : x # action)

\* skimage._shared.utils.deprecated: the wrapper warns that the function is
\* deprecated, naming the alternative, and runs the function; the filter list
\* is what it was.
deprecated(fl, alt_func) == fl

\* os.path.join(data_dir, f) for a relative f.
path_join(d, f) == <<d, f>>

\* ----------------------------------------------------------- the accessors
\* An accessor's body: what it calls (load, or raise), with which file name
\* and as_grey, what it does to the loaded image, the warnings filter it
\* installs and whether it does so inside warnings.catch_warnings().

Plain(f) ==
    [op |-> "load", f |-> f, as_grey |-> FALSE, post |-> "none",
     filter |-> "none", guard |-> "none", deprecated |-> "none"]

camera == Plain("camera.png")

\* lena loading a lena.png again.
lena_resurrected ==
    [op |-> "load", f |-> "lena.png", as_grey |-> FALSE, post |-> "none",
     filter |-> "none", guard |-> "none", deprecated |-> "skimage.data.astronaut"]

lena ==
    [op |-> "raise", f |-> "none", as_grey |-> FALSE, post |-> "none",
     filter |-> "none", guard |-> "none", deprecated |-> "skimage.data.astronaut"]

astronaut == Plain("astronaut.png")

text == Plain("text.png")

\* checkerboard asking for a file name the directory does not use.
checkerboard_renamed == Plain("checkerboard.png")

checkerboard == Plain("chessboard_GRAY.png")

\* coins with the file name of moon.
coins_as_moon == Plain("moon.png")

coins == Plain("coins.png")

moon == Plain("moon.png")

page == Plain("page.png")

\* horse returning the grey image as loaded.
horse_unconverted ==
    [op |-> "load", f |-> "horse.png", as_grey |-> TRUE, post |-> "none",
     filter |-> "ignore", guard |-> "catch_warnings", deprecated |-> "none"]

\* horse installing its filter outside catch_warnings.
horse_unguarded ==
    [op |-> "load", f |-> "horse.png", as_grey |-> TRUE, post |-> "img_as_bool",
     filter |-> "ignore", guard |-> "none", deprecated |-> "none"]

horse ==
    [op |-> "load", f |-> "horse.png", as_grey |-> TRUE, post |-> "img_as_bool",
     filter |-> "ignore", guard |-> "catch_warnings", deprecated |-> "none"]

clock == Plain("clock_motion.png")

immunohistochemistry == Plain("ihc.png")

chelsea == Plain("chelsea.png")

coffee == Plain("coffee.png")

hubble_deep_field == Plain("hubble_deep_field.jpg")

rocket == Plain("rocket.jpg")

Body(a) ==
    CASE a = "camera" -> camera
      [] a = "lena" -> lena
      [] a = "astronaut" -> astronaut
      [] a = "text" -> text
      [] a = "checkerboard" -> checkerboard
      [] a = "coins" -> coins
      [] a = "moon" -> moon
      [] a = "page" -> page
      [] a = "horse" -> horse
      [] a = "clock" -> clock
      [] a = "immunohistochemistry" -> immunohistochemistry
      [] a = "chelsea" -> chelsea
      [] a = "coffee" -> coffee
      [] a = "hubble_deep_field" -> hubble_deep_field
      [] a = "rocket" -> rocket

\* ----------------------------------------------------------------- load

\* load selecting another plugin.
load_plugin_matplotlib == "matplotlib"

\* The plugin load selects.
load_plugin == "pil"

\* load reading the file before it selects the plugin.
load_decode_first == <<"join", "imread", "use_plugin">>

\* The statements of load in the order they run: use_plugin('pil'), then the
\* argument os.path.join(data_dir, f), then imread.
load_steps == <<"use_plugin", "join", "imread">>

\* A handler that returns an empty array for any error.
swallow(k) == Returned(NoImage)

\* A handler that raises its own error in place of the one it caught.
rewrap(k) == Failure("RuntimeError")

\* What the caller of load, and the caller of the accessor around it, gets
\* when a statement raises k: there is no handler on the way.
propagate(k) == Failure(k)

\* ---------------------------------------------------------------- state

VARIABLES
    data_dir,     \* skimage.data_dir
    fs,           \* the files, by path
    available,    \* the io plugins that can be loaded
    plugin,       \* the plugin the io package has selected for imread
    filters,      \* warnings.filters
    frame,        \* each context's call
    prev,         \* an earlier accessor call and its outcome
    env0          \* the process-wide state before the first call

vars == <<data_dir, fs, available, plugin, filters, frame, prev, env0>>

DataDir == "/pkg/skimage/data"

Idle ==
    [pc |-> "idle", acc |-> "none", f |-> "none", as_grey |-> FALSE, ip |-> 0,
     path |-> <<>>, nload |-> 0, nimread |-> 0, raised |-> "none",
     loaded |-> NoOutcome, conv |-> FALSE, guard |-> "none", post |-> "none",
     saved |-> <<>>, entry |-> <<>>, result |-> NoOutcome]

NoPrev == [acc |-> "none", res |-> NoOutcome, gap |-> FALSE]

\* The packaged directory, with horse.png holding bitmap p.
Packaged(d, p) ==
    [q \in {path_join(d, f) : f \in FileNames} |->
        IF q[2] = "horse.png" THEN Valid(p)
        ELSE IF q[2] \in BundledSet THEN Bundled(q[2])
        ELSE Absent]

DefaultHorse == <<0, MaxSample>>

\* The directories a process may find: the packaged one whatever the bitmap,
\* one with a stray lena.png, and ones with a file missing or truncated.
FsStates(d) ==
    {Packaged(d, p) : p \in HorseContents}
    \cup {[Packaged(d, DefaultHorse) EXCEPT ![path_join(d, "lena.png")] = Bundled("camera.png")]}
    \cup {[Packaged(d, DefaultHorse) EXCEPT ![path_join(d, f)] = s] :
             f \in Damageable, s \in {Absent, Corrupt}}

FilterStates == {<<"default">>, <<"error", "default">>}

Init ==
    /\ data_dir = DataDir
    /\ fs \in FsStates(DataDir)
    /\ available \in {Plugins, Plugins \ {"pil"}}
    /\ plugin \in Plugins
    /\ plugin \in available
    /\ filters \in FilterStates
    /\ frame = [t \in Contexts |-> Idle]
    /\ prev = NoPrev
    /\ env0 = [data_dir |-> data_dir, fs |-> fs, plugin |-> plugin, filters |-> filters]

\* --------------------------------------------------------------- actions

Free(t) == frame[t].pc \in {"idle", "done"}

\* The call a context starts may keep the outcome of the accessor call it has
\* just finished, to compare a later call of that accessor with.
Remember(t, a) ==
    LET kept == IF prev.acc = "none" /\ frame[t].pc = "done" /\ frame[t].acc \in Accessors
                THEN {prev, [acc |-> frame[t].acc, res |-> frame[t].result, gap |-> FALSE]}
                ELSE {prev}
    IN  {IF p.acc # "none" /\ p.acc # a THEN [p EXCEPT !.gap = TRUE] ELSE p : p \in kept}

\* A frame entering load(f, as_grey).
EnterLoad(fr, f, g) ==
    [fr EXCEPT !.pc = "load", !.f = f, !.as_grey = g, !.ip = 1, !.nload = fr.nload + 1]

\* load(f, as_grey) called directly.
Load(t, f, g) ==
    /\ Free(t)
    /\ frame' = [frame EXCEPT ![t] = EnterLoad([Idle EXCEPT !.acc = "load", !.entry = filters], f, g)]
    /\ prev' \in Remember(t, "load")
    /\ UNCHANGED <<data_dir, fs, available, plugin, filters, env0>>

\* An accessor is entered: the deprecation wrapper of lena warns and runs the
\* body, which raises; horse enters catch_warnings and installs its filter;
\* every accessor but lena then calls load.
Accessor(t, a) ==
    LET b == Body(a)
        fr == [Idle EXCEPT !.acc = a, !.entry = filters, !.guard = b.guard,
                           !.post = b.post, !.saved = filters]
    IN  /\ Free(t)
        /\ prev' \in Remember(t, a)
        /\ filters' = IF b.deprecated # "none" THEN deprecated(filters, b.deprecated)
                      ELSE IF b.filter # "none" THEN simplefilter(filters, b.filter)
                      ELSE filters
        /\ frame' = [frame EXCEPT ![t] =
                        IF b.op = "raise"
                        THEN [fr EXCEPT !.pc = "done", !.raised = "Removed",
                                        !.result = Failure("Removed")]
                        ELSE EnterLoad(fr, b.f, b.as_grey)]
        /\ UNCHANGED <<data_dir, fs, available, plugin, env0>>

\* The frame after a statement of load that did not raise.
Advance(fr) ==
    IF fr.ip < Len(load_steps)
    THEN [fr EXCEPT !.ip = fr.ip + 1]
    ELSE [fr EXCEPT !.ip = 0, !.pc = "post"]

Raise(fr, k) == [fr EXCEPT !.ip = 0, !.pc = "unwind", !.raised = k, !.loaded = Failure(k)]

At(t, step) ==
    /\ frame[t].pc = "load"
    /\ load_steps[frame[t].ip] = step

\* use_plugin('pil')
UsePlugin(t) ==
    /\ At(t, "use_plugin")
    /\ IF load_plugin \in available
       THEN /\ plugin' = load_plugin
            /\ frame' = [frame EXCEPT ![t] = Advance(frame[t])]
       ELSE /\ plugin' = plugin
            /\ frame' = [frame EXCEPT ![t] = Raise(frame[t], "BackendUnavailable")]
    /\ UNCHANGED <<data_dir, fs, available, filters, prev, env0>>

\* _os.path.join(data_dir, f)
Join(t) ==
    /\ At(t, "join")
    /\ frame' = [frame EXCEPT ![t] = Advance([frame[t] EXCEPT !.path = path_join(data_dir, frame[t].f)])]
    /\ UNCHANGED <<data_dir, fs, available, plugin, filters, prev, env0>>

\* imread(path, as_grey=as_grey)
Imread(t) ==
    LET fr == [frame[t] EXCEPT !.nimread = frame[t].nimread + 1]
        out == imread(plugin, fs, fr.path, fr.as_grey)
    IN  /\ At(t, "imread")
        /\ frame' = [frame EXCEPT ![t] =
                        IF out.kind = "Image"
                        THEN Advance([fr EXCEPT !.loaded = out])
                        ELSE Raise(fr, out.kind)]
        /\ UNCHANGED <<data_dir, fs, available, plugin, filters, prev, env0>>

\* return load(...): the loaded image is the accessor's result; a return from
\* inside catch_warnings puts the saved filter list back.
Return(t) ==
    /\ frame[t].pc = "post"
    /\ frame[t].post = "none"
    /\ filters' = IF frame[t].guard = "catch_warnings" THEN frame[t].saved ELSE filters
    /\ frame' = [frame EXCEPT ![t] = [frame[t] EXCEPT !.pc = "done", !.result = frame[t].loaded]]
    /\ UNCHANGED <<data_dir, fs, available, plugin, prev, env0>>

\* img_as_bool(load(...)) in horse
Convert(t) ==
    /\ frame[t].pc = "post"
    /\ frame[t].post = "img_as_bool"
    /\ frame' = [frame EXCEPT ![t] =
                    [frame[t] EXCEPT !.pc = "exit", !.conv = TRUE,
                                     !.result = Returned(img_as_bool(frame[t].loaded.img))]]
    /\ UNCHANGED <<data_dir, fs, available, plugin, filters, prev, env0>>

\* The return leaves the with block: catch_warnings puts the saved list back.
ExitWith(t) ==
    /\ frame[t].pc = "exit"
    /\ filters' = IF frame[t].guard = "catch_warnings" THEN frame[t].saved ELSE filters
    /\ frame' = [frame EXCEPT ![t] = [frame[t] EXCEPT !.pc = "done"]]
    /\ UNCHANGED <<data_dir, fs, available, plugin, prev, env0>>

\* An exception of load leaves load and the accessor; on its way out of horse
\* it leaves the with block.
Unwind(t) ==
    /\ frame[t].pc = "unwind"
    /\ filters' = IF frame[t].guard = "catch_warnings" THEN frame[t].saved ELSE filters
    /\ frame' = [frame EXCEPT ![t] = [frame[t] EXCEPT !.pc = "done", !.result = propagate(frame[t].raised)]]
    /\ UNCHANGED <<data_dir, fs, available, plugin, prev, env0>>

Step(t) ==
    \/ UsePlugin(t)
    \/ Join(t)
    \/ Imread(t)
    \/ Return(t)
    \/ Unwind(t)

\* One caller, one call at a time.
Next ==
    \E t \in SeqContexts :
        \/ \E a \in Accessors : Accessor(t, a)
        \/ \E f \in LoadNames, g \in BOOLEAN : Load(t, f, g)
        \/ Step(t)
        \/ Convert(t)
        \/ ExitWith(t)

Spec == Init /\ [][Next]_vars

\* Two contexts, each calling coins() or moon(), their statements interleaved.
NextConc ==
    \E t \in Contexts :
        \/ \E a \in ConcAccessors : Accessor(t, a)
        \/ Step(t)

SpecConc == Init /\ [][NextConc]_vars

\* ------------------------------------------------------------- properties

\* The catalog of the specification: accessor -> file name.
TableFile(a) ==
    CASE a = "camera" -> "camera.png"
      [] a = "astronaut" -> "astronaut.png"
      [] a = "text" -> "text.png"
      [] a = "checkerboard" -> "chessboard_GRAY.png"
      [] a = "coins" -> "coins.png"
      [] a = "moon" -> "moon.png"
      [] a = "page" -> "page.png"
      [] a = "horse" -> "horse.png"
      [] a = "clock" -> "clock_motion.png"
      [] a = "immunohistochemistry" -> "ihc.png"
      [] a = "chelsea" -> "chelsea.png"
      [] a = "coffee" -> "coffee.png"
      [] a = "hubble_deep_field" -> "hubble_deep_field.jpg"
      [] a = "rocket" -> "rocket.jpg"
      [] OTHER -> "none"

Loading == Accessors \ {"lena"}

\* The file a frame's load was asked for.
FileOf(x) == fs[path_join(data_dir, x.f)]

BackendWorks == "pil" \in available

AllBundled == \A f \in BundledSet : fs[path_join(data_dir, f)].state = "valid"

\* C1: a call of lena() is over in its one step and has failed with Removed,
\* without load or imread having been called, whatever files (a lena.png
\* among them) the directory holds, whatever the warnings filters are, and
\* whatever was called before.
C1_LenaAlwaysRemoved ==
    \A t \in Contexts :
        frame[t].acc = "lena" =>
            /\ frame[t].pc = "done"
            /\ frame[t].result = Failure("Removed")
            /\ frame[t].nload = 0
            /\ frame[t].nimread = 0
            /\ frame[t].loaded = NoOutcome

\* lena() has failed with a lena.png in the directory, the filters turning
\* warnings into errors, after an earlier call of another accessor.
C1_Witness ==
    /\ frame["c1"].acc = "lena"
    /\ frame["c1"].pc = "done"
    /\ fs[path_join(data_dir, "lena.png")].state = "valid"
    /\ Head(filters) = "error"
    /\ prev.acc \in Loading
    /\ prev.res.kind = "Image"

\* C2: every accessor but lena calls load once, with the file name the catalog
\* gives for it and with as_grey false unless it is horse, on every call; all
\* but horse return what load returned or fail as load failed.
C2_CatalogMapping ==
    \A t \in Contexts :
        frame[t].acc \in Loading =>
            /\ frame[t].f = TableFile(frame[t].acc)
            /\ frame[t].nload = 1
            /\ frame[t].as_grey = (frame[t].acc = "horse")
            /\ frame[t].acc # "horse" => ~frame[t].conv
            /\ (frame[t].pc = "done" /\ frame[t].acc # "horse") =>
                   /\ frame[t].result = frame[t].loaded
                   /\ frame[t].nimread <= 1

\* checkerboard() has returned the image of chessboard_GRAY.png, after an
\* earlier call of checkerboard().
C2_Witness ==
    /\ frame["c1"].acc = "checkerboard"
    /\ frame["c1"].pc = "done"
    /\ frame["c1"].result.kind = "Image"
    /\ frame["c1"].result.img.pix = Bundled("chessboard_GRAY.png").pix
    /\ prev.acc = "checkerboard"

\* C3: horse() loads horse.png with as_grey true, converts only what load has
\* returned, and what it returns is that image passed through img_as_bool:
\* boolean samples, each 0 or 1, whatever grey samples the file holds.
C3_HorseBoolean ==
    \A t \in Contexts :
        frame[t].acc = "horse" =>
            /\ frame[t].f = "horse.png"
            /\ frame[t].as_grey
            /\ frame[t].conv => (frame[t].loaded.kind = "Image" /\ frame[t].nimread = 1)
            /\ (frame[t].pc = "done" /\ frame[t].result.kind = "Image") =>
                   /\ frame[t].conv
                   /\ frame[t].loaded.img.grey
                   /\ frame[t].result.img.dtype = "bool"
                   /\ \A k \in DOMAIN frame[t].result.img.pix :
                          frame[t].result.img.pix[k] \in {0, 1}
                   /\ DOMAIN frame[t].result.img.pix = DOMAIN frame[t].loaded.img.pix
                   /\ frame[t].result.img.h = frame[t].loaded.img.h
                   /\ frame[t].result.img.w = frame[t].loaded.img.w

\* horse() has returned, and the grey image it loaded held a sample that is
\* neither 0 nor 1 beside one that is.
C3_Witness ==
    /\ frame["c1"].acc = "horse"
    /\ frame["c1"].pc = "done"
    /\ frame["c1"].result.kind = "Image"
    /\ \E k \in DOMAIN frame["c1"].loaded.img.pix : frame["c1"].loaded.img.pix[k] \notin {0, 1}
    /\ \E k \in DOMAIN frame["c1"].loaded.img.pix : frame["c1"].loaded.img.pix[k] \in {0, 1}

\* C4: with the bundled files in the directory (which does not change) and the
\* pil backend loadable, every accessor but lena returns an image of non-zero
\* height and width; and a call of an accessor ends as an earlier call of the
\* same accessor ended, whatever was called in between.
C4_NonEmptyAndIdempotent ==
    \A t \in Contexts :
        (frame[t].pc = "done" /\ frame[t].acc \in Loading) =>
            /\ (AllBundled /\ BackendWorks) =>
                   /\ frame[t].result.kind = "Image"
                   /\ frame[t].result.img.h > 0
                   /\ frame[t].result.img.w > 0
            /\ prev.acc = frame[t].acc => frame[t].result = prev.res

\* coins() has returned an image a second time, with another accessor called
\* in between.
C4_Witness ==
    /\ frame["c1"].acc = "coins"
    /\ frame["c1"].pc = "done"
    /\ frame["c1"].result.kind = "Image"
    /\ prev.acc = "coins"
    /\ prev.gap
    /\ env0.plugin # "pil"

\* C5: load of a file name that is not in the directory never returns an image
\* and never fails with DecodeError, with either as_grey; with the pil backend
\* loadable it fails with FileNotFound.
C5_MissingFile ==
    \A t \in Contexts :
        (frame[t].pc = "done" /\ frame[t].acc = "load" /\ FileOf(frame[t]).state = "absent") =>
            /\ frame[t].result.kind \notin {"Image", "DecodeError", "none"}
            /\ frame[t].result.img = NoImage
            /\ BackendWorks => frame[t].result = Failure("FileNotFound")

\* load("nonexistent.png", as_grey=True) has failed with FileNotFound.
C5_Witness ==
    /\ frame["c1"].acc = "load"
    /\ frame["c1"].pc = "done"
    /\ frame["c1"].f = "nonexistent.png"
    /\ frame["c1"].as_grey
    /\ frame["c1"].result.kind = "FileNotFound"

\* C6: once load has raised, load and imread have been called at most once,
\* nothing has been converted, the call only unwinds, and it ends with the
\* failure load raised and no image; a truncated file never gives an image,
\* and gives DecodeError once imread has been called on it.
C6_NoRecovery ==
    \A t \in Contexts :
        /\ frame[t].raised \notin {"none", "Removed"} =>
               /\ frame[t].nload = 1
               /\ frame[t].nimread <= 1
               /\ ~frame[t].conv
               /\ frame[t].pc \in {"unwind", "done"}
               /\ frame[t].loaded = Failure(frame[t].raised)
               /\ frame[t].pc = "done" => frame[t].result = Failure(frame[t].raised)
        /\ (frame[t].pc = "done" /\ frame[t].nload = 1 /\ FileOf(frame[t]).state = "corrupt") =>
               /\ frame[t].result.kind \in {"DecodeError", "BackendUnavailable"}
               /\ frame[t].nimread = 1 => frame[t].result = Failure("DecodeError")

\* horse() has failed with DecodeError on a truncated horse.png.
C6_Witness ==
    /\ frame["c1"].acc = "horse"
    /\ frame["c1"].pc = "done"
    /\ FileOf(frame["c1"]).state = "corrupt"
    /\ frame["c1"].raised = "DecodeError"
    /\ frame["c1"].result.kind = "DecodeError"

\* What a sequential call of accessor a returns.
Sequential(a) == imread("pil", fs, path_join(data_dir, TableFile(a)), FALSE)

\* C7: with coins.png and moon.png in the directory and the pil backend
\* loadable, a call of coins() or moon() that ran interleaved with another
\* returns the image a sequential call returns, which is not the image of the
\* other accessor.
C7_NoCrossContamination ==
    \A t \in Contexts :
        (/\ frame[t].pc = "done"
         /\ frame[t].acc \in ConcAccessors
         /\ BackendWorks
         /\ \A a \in ConcAccessors : Sequential(a).kind = "Image") =>
            /\ frame[t].result = Sequential(frame[t].acc)
            /\ \A a \in ConcAccessors \ {frame[t].acc} : frame[t].result # Sequential(a)

\* coins() has returned while moon(), entered before another plugin was
\* replaced by pil, is still inside load.
C7_Witness ==
    /\ frame["c1"].acc = "coins"
    /\ frame["c1"].pc = "done"
    /\ frame["c1"].result.kind = "Image"
    /\ frame["c2"].acc = "moon"
    /\ frame["c2"].pc = "load"
    /\ frame["c2"].ip = 3
    /\ env0.plugin # "pil"

AllFree == \A t \in Contexts : Free(t)

C9_BackendFirst ==
    \A t \in Contexts :
        frame[t].nload = 1 =>
            /\ (frame[t].path # <<>> \/ frame[t].nimread > 0 \/ frame[t].loaded.kind = "Image") =>
                   (BackendWorks /\ plugin = "pil")
            /\ ~BackendWorks =>
                   /\ frame[t].path = <<>>
                   /\ frame[t].nimread = 0
                   /\ frame[t].pc = "done" => frame[t].result = Failure("BackendUnavailable")

\* load of a missing file name has failed with BackendUnavailable.
C9_Witness ==
    /\ frame["c1"].acc = "load"
    /\ frame["c1"].pc = "done"
    /\ FileOf(frame["c1"]).state = "absent"
    /\ frame["c1"].result.kind = "BackendUnavailable"

====
